---- MODULE Spec2Model ----
(***************************************************************************)
(* notifico: the Github hook service (notifico/services/hooks/github.py).  *)
(*                                                                         *)
(* One webhook request is one run of the generator                         *)
(* GithubHook.handle_request: the form field `payload` is parsed,          *)
(* simplify_payload massages it, and the generator yields the push (or     *)
(* tag) summary and one line per commit.  GithubHook.shorten posts the     *)
(* link to git.io while the summary is built.                              *)
(*                                                                         *)
(* Python values are records tagged by k: a missing dictionary key is      *)
(* Absent, None/null is Null, a string is Str(s), a list is List(s), an    *)
(* object is a record with k = "obj".  A call that may raise returns       *)
(* Ok(v) or Raise(exception name).                                         *)
(***************************************************************************)
EXTENDS Integers, Sequences, FiniteSets, TLC

VARIABLES
    form,        \* request.form: [payload |-> the field's value]
    hookConfig,  \* hook.config: NoConfig (None) or a config dictionary
    pc,          \* the generator (or call): "start", "suspended", "done"
    at,          \* the yield the generator is suspended at
    j,           \* simplify_payload's result, Null before it exists
    lines,       \* the messages yielded so far, in order
    raised,      \* the exception that left the call, or NoException
    post,        \* the outcome of requests.post, NoPost when none was made
    url,         \* the argument of a direct call of GithubHook.shorten
    ret          \* what that call returned, Null before it returns

vars == <<form, hookConfig, pc, at, j, lines, raised, post, url, ret>>

----------------------------------------------------------------------------
(* Bounds *)

\* The longest commits list of a payload.
MaxCommits == 2

----------------------------------------------------------------------------
(* Python values *)

Absent == [k |-> "absent"]
Null == [k |-> "null"]
Str(s) == [k |-> "str", v |-> s]
List(s) == [k |-> "list", v |-> s]

Ok(v) == [ok |-> TRUE, v |-> v]
Raise(e) == [ok |-> FALSE, exc |-> e]
NoException == "none"

\* dict.get(key, default) on the value stored under the key.
Get(value, default) == IF value = Absent THEN default ELSE value

\* dict.get(key): None when the key is missing.
GetOrNone(value) == Get(value, Null)

\* Python truthiness of None, a string, a list, a bool.
Truthy(value) ==
    CASE value.k = "str" -> value.v # ""
      [] value.k = "list" -> value.v # <<>>
      [] value.k = "bool" -> value.v
      [] value.k = "obj" -> TRUE
      [] OTHER -> FALSE

----------------------------------------------------------------------------
(* Strings *)

StartsWith(s, prefix) ==
    /\ Len(s) >= Len(prefix)
    /\ SubSeq(s, 1, Len(prefix)) = prefix

\* s[n:]
From(s, n) == SubSeq(s, n + 1, Len(s))

\* s[:n]
UpTo(s, n) == SubSeq(s, 1, IF Len(s) < n THEN Len(s) ELSE n)

Upper == "ABCDEFGHIJKLMNOPQRSTUVWXYZ"
Lowercase == "abcdefghijklmnopqrstuvwxyz"

LowerChar(c) ==
    IF \E i \in 1..Len(Upper) : SubSeq(Upper, i, i) = c
    THEN LET i == CHOOSE i \in 1..Len(Upper) : SubSeq(Upper, i, i) = c
         IN SubSeq(Lowercase, i, i)
    ELSE c

\* str.lower()
RECURSIVE Lower(_)
Lower(s) ==
    IF s = "" THEN "" ELSE LowerChar(SubSeq(s, 1, 1)) \o Lower(From(s, 1))

\* str.strip(): leading and trailing blanks removed.
RECURSIVE LStrip(_)
LStrip(s) ==
    IF s # "" /\ SubSeq(s, 1, 1) = " " THEN LStrip(From(s, 1)) ELSE s

RECURSIVE RStrip(_)
RStrip(s) ==
    IF s # "" /\ SubSeq(s, Len(s), Len(s)) = " "
    THEN RStrip(SubSeq(s, 1, Len(s) - 1))
    ELSE s

Strip(s) == RStrip(LStrip(s))

\* str.split(','): the pieces between the commas, empty pieces kept.
RECURSIVE SplitFrom(_, _)
SplitFrom(s, piece) ==
    IF s = "" THEN <<piece>>
    ELSE IF SubSeq(s, 1, 1) = ","
         THEN <<piece>> \o SplitFrom(From(s, 1), "")
         ELSE SplitFrom(From(s, 1), piece \o SubSeq(s, 1, 1))

Split(s) == SplitFrom(s, "")

\* The decimal digits of a natural number (str.format of an int).
RECURSIVE Decimal(_)
Decimal(n) ==
    IF n < 10 THEN SubSeq("0123456789", n + 1, n + 1)
    ELSE Decimal(n \div 10) \o SubSeq("0123456789", (n % 10) + 1, (n % 10) + 1)

----------------------------------------------------------------------------
(* simplify_payload *)

\* ref_r.match(ref): the pattern refs/(heads|tags)/(.*)$ anchored at the start.
ref_r_match(ref) ==
    IF StartsWith(ref, "refs/heads/")
    THEN [matched |-> TRUE, type_ |-> "heads", name |-> From(ref, Len("refs/heads/"))]
    ELSE IF StartsWith(ref, "refs/tags/")
         THEN [matched |-> TRUE, type_ |-> "tags", name |-> From(ref, Len("refs/tags/"))]
         ELSE [matched |-> FALSE]

\* result[{'heads': 'branch', 'tags': 'tag'}[type_]] = name
SetRef(result, type_, name) ==
    IF type_ = "heads"
    THEN [result EXCEPT !.branch = Str(name)]
    ELSE [result EXCEPT !.tag = Str(name)]

\* The loop over (ref, base_ref) as it would run without its `break`: a
\* matching base_ref is recorded after a matching ref.
RECURSIVE RefLoopNoBreak(_, _, _)
RefLoopNoBreak(refs, i, result) ==
    IF i > Len(refs) THEN Ok(result)
    ELSE IF refs[i].k # "str" THEN Raise("TypeError")
    ELSE LET match == ref_r_match(refs[i].v)
         IN RefLoopNoBreak(refs, i + 1,
                IF match.matched
                THEN SetRef(result, match.type_, match.name)
                ELSE result)

\* The loop over (ref, base_ref): the first match sets its field and breaks.
\* re.match raises TypeError on a value that is no string.
RECURSIVE RefLoop(_, _, _)
RefLoop(refs, i, result) ==
    IF i > Len(refs) THEN Ok(result)
    ELSE IF refs[i].k # "str" THEN Raise("TypeError")
    ELSE LET match == ref_r_match(refs[i].v)
         IN IF match.matched
            THEN Ok(SetRef(result, match.type_, match.name))
            ELSE RefLoop(refs, i + 1, result)

\* if 'pusher' in payload: result['pusher'] = payload['pusher'].get('name')
PusherStep(payload, result) ==
    IF payload.pusher = Absent THEN Ok(result)
    ELSE IF payload.pusher.k # "obj" THEN Raise("AttributeError")
    ELSE Ok([result EXCEPT !.pusher = GetOrNone(payload.pusher.name)])

\* The loop over the commits: commit[type_] raises KeyError on a missing list.
RECURSIVE FilesLoop(_, _, _)
FilesLoop(commits, i, result) ==
    IF i > Len(commits) THEN Ok(result)
    ELSE LET c == commits[i]
         IN IF c.added = Absent \/ c.removed = Absent \/ c.modified = Absent
            THEN Raise("KeyError")
            ELSE FilesLoop(commits, i + 1,
                    [result EXCEPT
                        !.files.added = @ \o c.added.v,
                        !.files.removed = @ \o c.removed.v,
                        !.files.modified = @ \o c.modified.v,
                        !.files.all = @ \o c.added.v \o c.removed.v \o c.modified.v])

simplify_payload(payload) ==
    LET result == [branch |-> Null, tag |-> Null, pusher |-> Null,
                   files |-> [all |-> <<>>, added |-> <<>>,
                              removed |-> <<>>, modified |-> <<>>],
                   original |-> payload]
        refs == <<Get(payload.ref, Str("")), Get(payload.base_ref, Str(""))>>
        r1 == RefLoop(refs, 1, result)
    IN IF ~r1.ok THEN r1
       ELSE LET r2 == PusherStep(payload, r1.v)
            IN IF ~r2.ok THEN r2
               ELSE FilesLoop(Get(payload.commits, List(<<>>)).v, 1, r2.v)

----------------------------------------------------------------------------
(* HookService.colors and HookService.message *)

RESET == "<RESET>"
BLUE == "<BLUE>"
ORANGE == "<ORANGE>"
GREEN == "<GREEN>"
PINK == "<PINK>"

\* The mIRC codes a formatted text may hold.  A text is the sequence of its
\* pieces: color codes and plain strings.
colors == {RESET, BLUE, ORANGE, GREEN, PINK}

strip_colors(text) == SelectSeq(text, LAMBDA piece : piece \notin colors)

\* cls.message(text, strip=strip)
message(text, strip) == IF strip THEN strip_colors(text) ELSE text

\* The characters of a text, color codes included.
RECURSIVE Chars(_)
Chars(text) == IF text = <<>> THEN "" ELSE Head(text) \o Chars(Tail(text))

\* u' '.join(line)
RECURSIVE Join(_)
Join(line) ==
    IF line = <<>> THEN <<>>
    ELSE IF Len(line) = 1 THEN line[1]
    ELSE line[1] \o <<" ">> \o Join(Tail(line))

\* '{}'.format(value): None prints as "None".
Format(value) == IF value.k = "str" THEN value.v ELSE "None"

----------------------------------------------------------------------------
(* GithubHook.shorten *)

Created == 201

\* re.search(r'^https?://git.io', url): the dot matches any character.
AfterScheme(rest) ==
    /\ Len(rest) >= 9
    /\ SubSeq(rest, 1, 6) = "://git"
    /\ SubSeq(rest, 8, 9) = "io"

AlreadyShort(u) ==
    \/ StartsWith(u, "http") /\ AfterScheme(From(u, 4))
    \/ StartsWith(u, "https") /\ AfterScheme(From(u, 5))

\* requests.exceptions: the classes `except requests.exceptions.Timeout` catches.
IsTimeout(exc) == exc \in {"Timeout", "ConnectTimeout", "ReadTimeout"}

\* shorten(url) when requests.post ends with `outcome`: an exception
\* [k |-> "exc", exc |-> name] or a response [k |-> "response", status, location].
shorten(u, outcome) ==
    IF AlreadyShort(u) THEN Ok(u)
    ELSE IF outcome.k = "exc"
         THEN IF IsTimeout(outcome.exc) THEN Ok(u) ELSE Raise(outcome.exc)
         ELSE IF outcome.status # Created THEN Ok(u)
              ELSE Ok(outcome.location)

NoPost == [k |-> "none"]

\* What requests.post did during shorten(url): nothing when none was made.
Posted(u, outcome) == IF AlreadyShort(u) THEN NoPost ELSE outcome

----------------------------------------------------------------------------
(* The summaries *)

Bool(b) == [k |-> "bool", v |-> b]

\* The character U+00B1 (plus-minus sign), spelled as the source spells it.
PlusMinus == "\\u00B1"

\* The project name, `<owner>/<name>` with full_project_name.
ProjectName(original, config) ==
    IF Truthy(Get(config.full_project_name, Bool(FALSE)))
    THEN original.repository.owner.name \o "/" \o original.repository.name
    ELSE original.repository.name

\* u'{RESET}[{BLUE}{name}{RESET}]'
ProjectField(original, config) ==
    <<RESET, "[", BLUE, ProjectName(original, config), RESET, "]">>

_create_tag_summary(jj, config, outcome) ==
    LET original == jj.original
        pusher == IF Truthy(jj.pusher)
                  THEN <<ORANGE, jj.pusher.v, RESET, " tagged">>
                  ELSE <<"Tagged">>
    IN IF original.head_commit = Absent THEN Raise("KeyError")
       ELSE IF original.head_commit.k # "obj" THEN Raise("TypeError")
       ELSE LET sha == <<GREEN, UpTo(original.head_commit.id, 7), RESET, " as">>
                tag == <<GREEN, Format(jj.tag), RESET>>
                link == shorten(original.head_commit.url, outcome)
            IN IF ~link.ok THEN link
               ELSE Ok(Join(<<ProjectField(original, config), pusher, sha, tag,
                              <<PINK, link.v, RESET>> >>))

_create_push_summary(jj, config, outcome) ==
    LET original == jj.original
        n == Len(original.commits.v)
        pusher == IF Truthy(jj.pusher)
                  THEN << <<ORANGE, jj.pusher.v, RESET, " pushed">> >>
                  ELSE <<>>
        count == <<GREEN, Decimal(n), RESET, " ",
                   IF n = 1 THEN "commit" ELSE "commits">>
        branch == IF Truthy(Get(config.show_branch, Bool(TRUE))) /\ Truthy(jj.branch)
                  THEN << <<"to ", GREEN, jj.branch.v, RESET>> >>
                  ELSE <<>>
        files == <<"[+", Decimal(Len(jj.files.added)),
                   "/-", Decimal(Len(jj.files.removed)),
                   "/" \o PlusMinus, Decimal(Len(jj.files.modified)), "]">>
        link == shorten(original.compare, outcome)
    IN IF ~link.ok THEN link
       ELSE Ok(Join(<<ProjectField(original, config)>> \o pusher \o <<count>>
                    \o branch \o <<files, <<PINK, link.v, RESET>> >>))

EmptyDict == [k |-> "obj", username |-> Absent, name |-> Absent]

\* The author shown for a commit.
AttributeTo(commit, config) ==
    LET committer == Get(commit.committer, EmptyDict)
        author == Get(commit.author, EmptyDict)
        first == IF Truthy(Get(config.prefer_username, Bool(TRUE)))
                 THEN IF GetOrNone(author.username) = Null
                      THEN GetOrNone(author.username)
                      ELSE GetOrNone(author.username)
                 ELSE Null
    IN IF first # Null THEN first
       ELSE IF GetOrNone(author.name) # Null THEN GetOrNone(author.name)
            ELSE GetOrNone(committer.name)

\* The commit line as it would be if a commit nobody is named for were
\* attributed to the pusher.
CommitLineByPusher(jj, config, commit) ==
    LET attribute_to == IF AttributeTo(commit, config) = Null
                        THEN jj.pusher
                        ELSE AttributeTo(commit, config)
        who == IF Truthy(attribute_to)
               THEN << <<ORANGE, attribute_to.v, RESET>> >>
               ELSE <<>>
    IN Join(<<ProjectField(jj.original, config)>> \o who
            \o << <<GREEN, UpTo(commit.id, 7), RESET>>, <<"-">>, <<commit.message>> >>)

\* The line _create_commit_summary yields for one commit.
CommitLine(jj, config, commit) ==
    LET attribute_to == AttributeTo(commit, config)
        who == IF Truthy(attribute_to)
               THEN << <<ORANGE, attribute_to.v, RESET>> >>
               ELSE <<>>
    IN Join(<<ProjectField(jj.original, config)>> \o who
            \o << <<GREEN, UpTo(commit.id, 7), RESET>>, <<"-">>, <<commit.message>> >>)

\* The lines of the generator _create_commit_summary, in the order it yields.
_create_commit_summary(jj, config) ==
    [i \in 1..Len(jj.original.commits.v) |->
        CommitLine(jj, config, jj.original.commits.v[i])]

----------------------------------------------------------------------------
(* GithubHook.handle_request *)

\* hook.config of a hook made before configs existed.
NoConfig == Null

\* config = hook.config or {}
EmptyConfig ==
    [k |-> "obj", branches |-> Absent, use_colors |-> Absent,
     show_branch |-> Absent, show_tags |-> Absent,
     prefer_username |-> Absent, full_project_name |-> Absent]

ConfigOf(hook_config) == IF Truthy(hook_config) THEN hook_config ELSE EmptyConfig

\* json.loads(p): the document of a JSON text, ValueError on any other text.
json_loads(p) == IF p.k = "json" THEN Ok(p.doc) ELSE Raise("ValueError")

\* `if not p`: the field is missing or empty.
NoPayload(p) == p = Null \/ (p.k = "str" /\ p.v = "")

\* [b.strip().lower() for b in branches.split(',')]
RECURSIVE StripLower(_)
StripLower(pieces) ==
    IF pieces = <<>> THEN <<>>
    ELSE <<Lower(Strip(Head(pieces)))>> \o StripLower(Tail(pieces))

BranchList(branches) == StripLower(Split(branches))

InList(x, list) == \E i \in 1..Len(list) : list[i] = x

\* `if branches:` ... `return`: the push is on a branch the user filters out.
FilteredOut(jj, branches) ==
    /\ Truthy(branches)
    /\ Truthy(jj.branch)
    /\ ~InList(Lower(jj.branch.v), BranchList(branches.v))

\* `if not show_tags or 'tag' not in j`: j always has the key 'tag'.
NothingToDo(jj, show_tags) == ~Truthy(show_tags) \/ "tag" \notin DOMAIN jj

Stopped(exc) ==
    [pc |-> "done", at |-> "none", j |-> Null, lines |-> <<>>,
     raised |-> exc, post |-> NoPost]

\* The generator from its start to its first yield, its return or its raise.
handle_request(f, hook_config, outcome) ==
    LET p == GetOrNone(f.payload)
    IN IF NoPayload(p) THEN Stopped(NoException)
       ELSE IF ~json_loads(p).ok THEN Stopped(json_loads(p).exc)
       ELSE LET s == simplify_payload(json_loads(p).v)
            IN IF ~s.ok THEN Stopped(s.exc)
               ELSE LET jj == s.v
                        original == jj.original
                        config == ConfigOf(hook_config)
                        strip == ~Truthy(Get(config.use_colors, Bool(TRUE)))
                        branches == GetOrNone(config.branches)
                        show_tags == Get(config.show_tags, Bool(TRUE))
                    IN IF original.commits = Absent
                       THEN [Stopped("KeyError") EXCEPT !.j = jj]
                       ELSE IF ~Truthy(original.commits)
                       THEN IF NothingToDo(jj, show_tags)
                            THEN [Stopped(NoException) EXCEPT !.j = jj]
                            ELSE LET t == _create_tag_summary(jj, config, outcome)
                                 IN IF ~t.ok
                                    THEN [Stopped(t.exc) EXCEPT !.j = jj,
                                            !.post = IF original.head_commit.k = "obj"
                                                     THEN Posted(original.head_commit.url, outcome)
                                                     ELSE NoPost]
                                    ELSE [pc |-> "suspended", at |-> "tag", j |-> jj,
                                          lines |-> <<message(t.v, strip)>>,
                                          raised |-> NoException,
                                          post |-> Posted(original.head_commit.url, outcome)]
                       ELSE IF FilteredOut(jj, branches)
                       THEN [Stopped(NoException) EXCEPT !.j = jj]
                       ELSE LET t == _create_push_summary(jj, config, outcome)
                            IN IF ~t.ok
                               THEN [Stopped(t.exc) EXCEPT !.j = jj,
                                        !.post = Posted(original.compare, outcome)]
                               ELSE [pc |-> "suspended", at |-> "push", j |-> jj,
                                     lines |-> <<message(t.v, strip)>>,
                                     raised |-> NoException,
                                     post |-> Posted(original.compare, outcome)]

\* The generator from one yield to the next, or to its end.
NextLine(jj, hook_config, yielded) ==
    LET config == ConfigOf(hook_config)
        strip == ~Truthy(Get(config.use_colors, Bool(TRUE)))
        rest == _create_commit_summary(jj, config)
    IN message(rest[Len(yielded)], strip)

----------------------------------------------------------------------------
(* The requests, the configs and the answers of git.io *)

Repository == [name |-> "proj", owner |-> [name |-> "org"]]

Alice == [k |-> "obj", name |-> Str("alice")]
Anonymous == [k |-> "obj", name |-> Absent]

\* A commit without author and committer objects.
FixBug ==
    [id |-> "abcdef0123", message |-> "fix bug",
     added |-> List(<<>>), removed |-> List(<<>>), modified |-> List(<<"a.py">>),
     author |-> Absent, committer |-> Absent]

\* A commit with both; the author has a username and a name.
AddDocs ==
    [id |-> "0123456789ab", message |-> "add docs",
     added |-> List(<<"b.md", "c.md">>), removed |-> List(<<"d.py">>),
     modified |-> List(<<>>),
     author |-> [k |-> "obj", username |-> Str("bob"), name |-> Str("Bob B")],
     committer |-> [k |-> "obj", username |-> Absent, name |-> Str("Carol")]]

\* A commit of which only the committer's name is known.
Merge ==
    [id |-> "fedcba98", message |-> "merge",
     added |-> List(<<>>), removed |-> List(<<>>), modified |-> List(<<"a.py">>),
     author |-> Absent,
     committer |-> [k |-> "obj", username |-> Absent, name |-> Str("Carol")]]

\* A commit without its `removed` list.
NoRemoved == [FixBug EXCEPT !.removed = Absent]

HeadCommit == [k |-> "obj", id |-> "deadbeef00", url |-> "https://x/y"]

CompareUrl == "https://github.com/org/proj/compare/x...y"

RECURSIVE SeqsUpTo(_, _)
SeqsUpTo(S, n) ==
    IF n = 0 THEN {<<>>}
    ELSE LET shorter == SeqsUpTo(S, n - 1)
         IN shorter \cup {Append(q, x) : q \in shorter, x \in S}

CommitLists(S) == {Absent} \cup {List(q) : q \in SeqsUpTo(S, MaxCommits)}

\* The payloads of the hook's requests.
Payloads ==
    [ref : {Absent, Str("refs/heads/main"), Str("refs/heads/Dev"), Str("refs/tags/v1.0")},
     base_ref : {Absent},
     pusher : {Absent, Null, Alice},
     commits : CommitLists({FixBug, AddDocs}),
     head_commit : {Absent, HeadCommit},
     repository : {Repository},
     compare : {CompareUrl}]

\* The payloads simplify_payload is called with.
SimplifyPayloads ==
    [ref : {Absent, Null, Str("refs/heads/main"), Str("refs/tags/v1.0"),
            Str("refs/heads/"), Str("x/refs/tags/v2")},
     base_ref : {Absent, Null, Str("refs/heads/dev"), Str("refs/tags/v0.9"),
                 Str("refs/pull/7/head")},
     pusher : {Absent, Null, Alice, Anonymous},
     commits : CommitLists({FixBug, AddDocs, NoRemoved}),
     head_commit : {HeadCommit},
     repository : {Repository},
     compare : {CompareUrl}]

Json(doc) == [k |-> "json", doc |-> doc]

Forms(docs) ==
    {[payload |-> Absent], [payload |-> Str("")], [payload |-> Str("{not json")]}
    \cup {[payload |-> Json(doc)] : doc \in docs}

Bools == {Bool(TRUE), Bool(FALSE)}

\* show_branch, prefer_username and full_project_name: the form's defaults,
\* and each of them the other way.
Styles ==
    {[show_branch |-> Bool(TRUE), prefer_username |-> Bool(TRUE),
      full_project_name |-> Bool(FALSE)],
     [show_branch |-> Bool(FALSE), prefer_username |-> Bool(FALSE),
      full_project_name |-> Bool(TRUE)]}

Configs ==
    {NoConfig} \cup
    {[k |-> "obj", branches |-> b, use_colors |-> c, show_tags |-> t,
      show_branch |-> s.show_branch, prefer_username |-> s.prefer_username,
      full_project_name |-> s.full_project_name] :
        b \in {Str(""), Str("dev"), Str(" Main ,dev")},
        c \in Bools, t \in Bools, s \in Styles}

Exc(name) == [k |-> "exc", exc |-> name]
Response(status, location) ==
    [k |-> "response", status |-> status, location |-> location]

\* How requests.post ends while a hook request is handled.
HookOutcomes ==
    {Exc("ReadTimeout"), Exc("ConnectionError"),
     Response(201, "http://git.io/abc"), Response(404, "")}

\* How requests.post ends when shorten is called on its own.
PostOutcomes ==
    {Exc(e) : e \in {"ConnectTimeout", "ReadTimeout", "ConnectionError",
                     "SSLError", "TooManyRedirects"}}
    \cup {Response(201, l) : l \in {"http://git.io/abc", "http://git.io/xyz"}}
    \cup {Response(s, "") : s \in {200, 301, 404, 422, 500}}

Urls ==
    {CompareUrl, "https://x/y", "https://github.com/org/proj",
     "https://github.com/org/proj/commit/deadbeef00",
     "http://github.com/org/proj", "ftp://git.io/abc", "https://example.org/git.io",
     "xhttp://git.io/abc", "https://git.i",
     "http://git.io/abc", "https://git.io/xyz", "https://gitxio/abc"}

----------------------------------------------------------------------------
(* One hook request *)

Init ==
    /\ form \in Forms(Payloads)
    /\ hookConfig \in Configs
    /\ pc = "start"
    /\ at = "none"
    /\ j = Null
    /\ lines = <<>>
    /\ raised = NoException
    /\ post = NoPost
    /\ url = ""
    /\ ret = Null

\* The first next() on the generator.
Begin ==
    /\ pc = "start"
    /\ \E outcome \in HookOutcomes :
        LET r == handle_request(form, hookConfig, outcome)
        IN /\ pc' = r.pc
           /\ at' = r.at
           /\ j' = r.j
           /\ lines' = r.lines
           /\ raised' = r.raised
           /\ post' = r.post
    /\ UNCHANGED <<form, hookConfig, url, ret>>

\* A later next(): the following commit's line, or the generator's end.
Resume ==
    /\ pc = "suspended"
    /\ IF at # "tag" /\ Len(lines) <= Len(j.original.commits.v)
       THEN /\ lines' = Append(lines, NextLine(j, hookConfig, lines))
            /\ at' = "commit"
            /\ pc' = "suspended"
       ELSE /\ pc' = "done"
            /\ at' = "none"
            /\ lines' = lines
    /\ UNCHANGED <<form, hookConfig, j, raised, post, url, ret>>

Next == Begin \/ Resume

Spec == Init /\ [][Next]_vars

----------------------------------------------------------------------------
(* simplify_payload on its own *)

InitSimplify ==
    /\ form \in {[payload |-> Json(doc)] : doc \in SimplifyPayloads}
    /\ hookConfig = NoConfig
    /\ pc = "start"
    /\ at = "none"
    /\ j = Null
    /\ lines = <<>>
    /\ raised = NoException
    /\ post = NoPost
    /\ url = ""
    /\ ret = Null

Simplify ==
    /\ pc = "start"
    /\ LET r == simplify_payload(form.payload.doc)
       IN /\ j' = IF r.ok THEN r.v ELSE Null
          /\ raised' = IF r.ok THEN NoException ELSE r.exc
    /\ pc' = "done"
    /\ UNCHANGED <<form, hookConfig, at, lines, post, url, ret>>

NextSimplify == Simplify

SpecSimplify == InitSimplify /\ [][NextSimplify]_vars

----------------------------------------------------------------------------
(* GithubHook.shorten on its own *)

InitShorten ==
    /\ url \in Urls
    /\ form = [payload |-> Absent]
    /\ hookConfig = NoConfig
    /\ pc = "start"
    /\ at = "none"
    /\ j = Null
    /\ lines = <<>>
    /\ raised = NoException
    /\ post = NoPost
    /\ ret = Null

Shorten ==
    /\ pc = "start"
    /\ \E outcome \in PostOutcomes :
        LET r == shorten(url, outcome)
        IN /\ ret' = IF r.ok THEN Str(r.v) ELSE Null
           /\ raised' = IF r.ok THEN NoException ELSE r.exc
           /\ post' = Posted(url, outcome)
    /\ pc' = "done"
    /\ UNCHANGED <<form, hookConfig, at, j, lines, url>>

NextShorten == Shorten

SpecShorten == InitShorten /\ [][NextShorten]_vars

----------------------------------------------------------------------------
(* What the claims speak of *)

Finished == pc = "done"

Parsed == form.payload.k = "json"
Payload == form.payload.doc

HasCommits == Parsed /\ Payload.commits.k = "list" /\ Payload.commits.v # <<>>
EmptyCommits == Parsed /\ Payload.commits.k = "list" /\ Payload.commits.v = <<>>
CommitCount == Len(Payload.commits.v)

IsHeadsRef(value) == value.k = "str" /\ StartsWith(value.v, "refs/heads/")
IsTagsRef(value) == value.k = "str" /\ StartsWith(value.v, "refs/tags/")
HeadsName(value) == From(value.v, 11)
TagsName(value) == From(value.v, 10)

\* The request's git.io post ended in an exception that is no timeout.
PostFailed == post.k = "exc" /\ post.exc \notin {"Timeout", "ConnectTimeout", "ReadTimeout"}

\* The filter the hook is configured with, "" when it has none.
Filter ==
    IF hookConfig = NoConfig \/ hookConfig.branches.k # "str" THEN ""
    ELSE hookConfig.branches.v

ShowTags == hookConfig = NoConfig \/ hookConfig.show_tags \in {Absent, Bool(TRUE)}

Contains(s, sub) ==
    \E i \in 1..(Len(s) - Len(sub) + 1) : SubSeq(s, i, i + Len(sub) - 1) = sub

\* A yielded line without its color codes.
Plain(line) == Chars(strip_colors(line))

\* The lines are the push summary and then one line per commit, in the
\* payload's order.
SummaryThenCommits ==
    /\ Len(lines) = 1 + CommitCount
    /\ Contains(Plain(lines[1]),
                Decimal(CommitCount) \o (IF CommitCount = 1 THEN " commit " ELSE " commits "))
    /\ \A i \in 1..CommitCount :
        Contains(Plain(lines[i + 1]),
                 UpTo(Payload.commits.v[i].id, 7) \o " - " \o Payload.commits.v[i].message)

----------------------------------------------------------------------------
(* The claims *)

\* C1: for every payload with a non-empty commits list and no branch filter
\* configured, handle_request yields exactly 1 + len(commits) lines: the push
\* summary first, then one line per commit in the payload's order.  (Stated
\* for the payloads whose pusher is missing or an object.)
C1_PushYieldsSummaryThenCommits ==
    (Finished /\ HasCommits /\ Filter = "" /\ Payload.pusher # Null)
        => SummaryThenCommits

\* C2: with non-empty commits and a non-empty branch filter, handle_request
\* yields nothing when the push's branch is present and its lower-cased name
\* is none of the filter's comma-separated, trimmed, lower-cased entries, and
\* the push summary followed by one line per commit otherwise.  (Stated for
\* the payloads whose pusher is missing or an object.)
C2_BranchFilter ==
    (Finished /\ HasCommits /\ Filter # "" /\ Payload.pusher # Null)
        => IF /\ IsHeadsRef(Payload.ref)
              /\ HeadsName(Payload.ref) # ""
              /\ ~InList(Lower(HeadsName(Payload.ref)), BranchList(Filter))
           THEN lines = <<>>
           ELSE SummaryThenCommits

\* C3: for every payload with an empty commits list whose ref resolves to no
\* tag, handle_request yields no line, whatever show_tags is.
C3_NoTagNoLine ==
    (Finished /\ EmptyCommits /\ ~IsTagsRef(Payload.ref) /\ ~IsTagsRef(Payload.base_ref))
        => lines = <<>>

\* C4: for every payload with an empty commits list and a ref that resolves to
\* a tag, handle_request yields exactly one line when show_tags is true (it
\* holds the tag name and the first 7 characters of the head commit's sha, and
\* its action phrase is "Tagged", without a pusher, when the pusher is absent)
\* and no line when show_tags is false.  (Stated for the payloads that have a
\* head commit and whose pusher is missing or an object.)
C4_TagSummary ==
    (/\ Finished /\ EmptyCommits /\ IsTagsRef(Payload.ref)
     /\ Payload.head_commit.k = "obj" /\ Payload.pusher # Null)
        => IF ShowTags
           THEN /\ Len(lines) = 1
                /\ Contains(Plain(lines[1]),
                            UpTo(Payload.head_commit.id, 7) \o " as " \o TagsName(Payload.ref))
                /\ Payload.pusher = Absent
                    => Contains(Plain(lines[1]), "] Tagged " \o UpTo(Payload.head_commit.id, 7))
           ELSE lines = <<>>

\* The payload of the push scenario: alice pushes one commit, which names no
\* author and no committer, to main.
ScenarioPayload ==
    [ref |-> Str("refs/heads/main"), base_ref |-> Absent, pusher |-> Alice,
     commits |-> List(<<FixBug>>), head_commit |-> Absent,
     repository |-> Repository, compare |-> CompareUrl]

Scenario == form = [payload |-> Json(ScenarioPayload)] /\ hookConfig = NoConfig

ScenarioSummary ==
    /\ Contains(Plain(lines[1]), "alice")
    /\ Contains(Plain(lines[1]), "1 commit")
    /\ Contains(Plain(lines[1]), "to main")
    /\ Contains(Plain(lines[1]), "[+0/-0/" \o PlusMinus \o "1]")

C6_ShortenNeverRaises ==
    Finished =>
        /\ raised = NoException
        /\ (post.k = "exc" \/ (post.k = "response" /\ post.status # 201))
            => ret = Str(url)
        /\ ret # Str(url)
            => post.k = "response" /\ post.status = 201 /\ ret = Str(post.location)

\* C7: handle_request yields nothing and raises nothing both when the request
\* has no (or an empty) `payload` field and when the field's text is not JSON.
C7_NoPayloadOrBadJson ==
    (Finished /\ ~Parsed) => lines = <<>> /\ raised = NoException

\* C8: for every parsed payload that lacks an optional part (no pusher, no tag
\* ref, no commits field, no head_commit), handle_request runs to its end,
\* yielding lines or nothing, and no exception is raised.  (Stated for the
\* requests whose post to git.io, if any, returned a response or timed out.)
C8_PartialDataNeverRaises ==
    (/\ Finished /\ Parsed /\ ~PostFailed
     /\ \/ Payload.pusher = Absent
        \/ ~IsTagsRef(Payload.ref)
        \/ Payload.commits = Absent
        \/ Payload.head_commit = Absent)
        => raised = NoException

\* C9: simplify_payload is total over JSON object payloads: also when `pusher`
\* is null, when a commit lacks its `added`, `removed` or `modified` list, or
\* when `ref`/`base_ref` is missing, it returns a result, whose missing fields
\* are None or empty, and does not raise.  (Stated for the payloads whose
\* `ref` and `base_ref` are missing or strings.)
C9_SimplifyIsTotal ==
    (Finished /\ Payload.ref # Null /\ Payload.base_ref # Null) =>
        /\ raised = NoException
        /\ j # Null
        /\ Payload.pusher \in {Absent, Null} => j.pusher = Null
        /\ Payload.commits = Absent => j.files.all = <<>>

\* C10: in every result of simplify_payload at most one of `branch` and `tag`
\* is set: `ref` is looked at before `base_ref`, the first of the two that
\* matches refs/(heads|tags)/<name> alone decides (heads sets branch, tags sets
\* tag), the other field stays None, and both stay None when neither matches.
C10_BranchOrTag ==
    (Finished /\ raised = NoException) =>
        LET ref == Payload.ref
            base_ref == Payload.base_ref
        IN /\ ~(j.branch # Null /\ j.tag # Null)
           /\ IF IsHeadsRef(ref)
              THEN j.branch = Str(HeadsName(ref)) /\ j.tag = Null
              ELSE IF IsTagsRef(ref)
              THEN j.tag = Str(TagsName(ref)) /\ j.branch = Null
              ELSE IF IsHeadsRef(base_ref)
              THEN j.branch = Str(HeadsName(base_ref)) /\ j.tag = Null
              ELSE IF IsTagsRef(base_ref)
              THEN j.tag = Str(TagsName(base_ref)) /\ j.branch = Null
              ELSE j.branch = Null /\ j.tag = Null

\* simplify_payload returned for a payload whose ref names a branch and whose
\* base_ref names a tag.
C10_Witness ==
    /\ Finished /\ raised = NoException
    /\ IsHeadsRef(Payload.ref) /\ IsTagsRef(Payload.base_ref)
    /\ j.branch = Str("main")

====
